---- MODULE Spec2Model ----
(***************************************************************************)
(* Stock-recount documents exchanged with 1C: InventoryService             *)
(* (importFrom1C, updateItems, revise, exportFor1C, ack) and               *)
(* InventoryServiceV2 (updateItemsWithMerge) over a transactional store.   *)
(*                                                                         *)
(* A prisma.$transaction is modelled in two steps.  Begin takes the        *)
(* consistent snapshot every read of the transaction sees (MySQL InnoDB,   *)
(* REPEATABLE READ: the README names MySQL and no isolation level is set). *)
(* Finish runs the handler body on that snapshot, which yields the         *)
(* handler's write statements in program order, and applies them to the    *)
(* committed rows as they are at that moment: an UPDATE acts on the latest *)
(* committed row, `increment` is evaluated by the store.  A body that      *)
(* throws rolls everything back.  Abort is the transaction running out of  *)
(* its maxWait/timeout budget.                                             *)
(***************************************************************************)
EXTENDS Integers, Sequences, FiniteSets, TLC

\* ------------------------------------------------------------------ bounds
MaxVersion == 3      \* no transaction bumps a version beyond this
MaxQty     == 2      \* submitted quantities range over 1..MaxQty
MaxHist    == 3      \* a watched read ends before the store has been in more states
MaxChanges == 2      \* the ItemChange log holds at most this many rows

\* ------------------------------------------------------------ value model
\* A nullable column / optional payload field: <<>> is null (undefined),
\* <<v>> is the value v.
NULL == <<>>
Some(v) == <<v>>
Val(x) == x[1]
\* JavaScript's  a ?? b
Coalesce(a, b) == IF a = NULL THEN b ELSE a
\* Prisma.Decimal arithmetic on non-null operands
DecAdd(a, b) == Some(Val(a) + Val(b))
DecSub(a, b) == Some(Val(a) - Val(b))

Procs   == {"p1", "p2"}
DocIds  == {"d1"}
ExtIds  == {"e1"}
Numbers == {"n1"}
Skus    == {"A", "B"}
Codes   == {"b1", "b2"}
Devices == {"t1", "t2"}
WhCodes == {"w1"}
SkuSeq  == <<"A", "B">>

NoDoc     == [exists |-> FALSE]
NoItem    == [exists |-> FALSE]
NoBarcode == [exists |-> FALSE]

\* The store before the first import.
EmptyDb ==
    [ warehouses |-> [w \in WhCodes |-> NULL],
      docs       |-> [d \in DocIds |-> NoDoc],
      items      |-> [d \in DocIds |-> [s \in Skus |-> NoItem]],
      barcodes   |-> [d \in DocIds |-> [b \in Codes |-> NoBarcode]],
      changes    |-> <<>> ]

\* ------------------------------------------------------ store statements
\* A partial `data` object: the columns named in it are assigned.
Assign(row, data) ==
    [f \in DOMAIN row |-> IF f \in DOMAIN data THEN data[f] ELSE row[f]]

RECURSIVE createManySkip(_, _, _, _, _)
\* createMany({ data, skipDuplicates: true }) on the barcode table, whose
\* unique key is (documentId, barcode): a row whose key exists is skipped.
createManySkip(bcs, d, sku, list, i) ==
    IF i > Len(list) THEN bcs
    ELSE LET b == list[i]
             next == IF bcs[d][b].exists THEN bcs
                     ELSE [bcs EXCEPT ![d][b] =
                              [exists |-> TRUE, sku |-> sku, isPrimary |-> (i = 1)]]
         IN  createManySkip(next, d, sku, list, i + 1)

\* document.update({ data }): `version: { increment: 1 }` is evaluated by the
\* store on the row as it is when the statement runs.
documentUpdate(row, data) ==
    LET plain == [f \in DOMAIN data \ {"increment"} |-> data[f]]
        r     == Assign(row, plain)
    IN  IF "increment" \in DOMAIN data
        THEN [r EXCEPT !.version = row.version + data.increment]
        ELSE r

\* An item row created with its count at zero.
itemCreateCounted(w) ==
    [exists |-> TRUE, name |-> w.name, unit |-> w.unit,
     qtyFrom1C |-> w.qtyFrom1C, countedQty |-> Some(0),
     correctedQty |-> NULL, deltaQty |-> NULL, note |-> NULL]

\* inventoryItem.create({ data }): the columns not given are null.
itemCreate(w) ==
    [exists |-> TRUE, name |-> w.name, unit |-> w.unit,
     qtyFrom1C |-> w.qtyFrom1C, countedQty |-> NULL,
     correctedQty |-> NULL, deltaQty |-> NULL, note |-> NULL]

\* The effect of one write statement on the tables.
\* A create that replaces the row its device already has for the item.
changeUpsert(log, row, createdAt) ==
    LET kept == SelectSeq(log, LAMBDA r :
                    ~(r.documentId = row.documentId /\ r.itemId = row.itemId
                      /\ r.deviceId = row.deviceId))
    IN  Append(kept, [documentId |-> row.documentId, itemId |-> row.itemId,
                      deviceId |-> row.deviceId, countedQty |-> row.countedQty,
                      correctedQty |-> row.correctedQty, note |-> row.note,
                      createdAt |-> createdAt])

\* A create that keeps one row per item: the last writer's.
changeOverwrite(log, row, createdAt) ==
    LET kept == SelectSeq(log, LAMBDA r :
                    ~(r.documentId = row.documentId /\ r.itemId = row.itemId))
    IN  Append(kept, [documentId |-> row.documentId, itemId |-> row.itemId,
                      deviceId |-> row.deviceId, countedQty |-> row.countedQty,
                      correctedQty |-> row.correctedQty, note |-> row.note,
                      createdAt |-> createdAt])

\* inventoryItemChange.create: a new row at the end of the log; createdAt is
\* the column default, the time of the insert.
changeCreate(log, row, createdAt) ==
    Append(log, [documentId |-> row.documentId, itemId |-> row.itemId,
                 deviceId |-> row.deviceId, countedQty |-> row.countedQty,
                 correctedQty |-> row.correctedQty, note |-> row.note,
                 createdAt |-> createdAt])

Apply(db, w) ==
    CASE w.t = "warehouse.upsert" ->
           [db EXCEPT !.warehouses[w.code] = Some(w.name)]
      [] w.t = "document.create" ->
           [db EXCEPT !.docs[w.id] =
              [exists |-> TRUE, externalId |-> w.externalId,
               onecNumber |-> w.onecNumber, onecDate |-> w.onecDate,
               warehouseCode |-> w.warehouseCode,
               status |-> "IMPORTED", version |-> 1,
               createdAt |-> Cardinality({d \in DOMAIN db.docs : db.docs[d].exists}) + 1]]
      [] w.t = "document.update" ->
           [db EXCEPT !.docs[w.id] = documentUpdate(@, w.data)]
      [] w.t = "item.create" ->
           [db EXCEPT !.items[w.documentId][w.sku] = itemCreate(w)]
      [] w.t = "item.update" ->
           [db EXCEPT !.items[w.documentId][w.sku] = Assign(@, w.data)]
      [] w.t = "barcode.deleteMany" ->
           [db EXCEPT !.barcodes[w.documentId] =
              [b \in Codes |-> IF @[b].exists /\ @[b].sku = w.sku
                               THEN NoBarcode ELSE @[b]]]
      [] w.t = "barcode.createMany" ->
           [db EXCEPT !.barcodes =
              createManySkip(@, w.documentId, w.sku, w.barcodes, 1)]
      [] w.t = "change.create" ->
           [db EXCEPT !.changes = changeCreate(@, w.row, w.createdAt)]

\* A create that meets an existing unique key fails the statement.
Violates(db, w) ==
    CASE w.t = "document.create" ->
           \/ db.docs[w.id].exists
           \/ \E d \in DocIds : db.docs[d].exists /\ db.docs[d].externalId = w.externalId
      [] w.t = "item.create" -> db.items[w.documentId][w.sku].exists
      [] OTHER -> FALSE

RECURSIVE ApplyAll(_, _, _)
\* The statements ws[i..] applied in order; ok is FALSE when one of them fails.
ApplyAll(db, ws, i) ==
    IF i > Len(ws) THEN [ok |-> TRUE, db |-> db]
    ELSE IF Violates(db, ws[i]) THEN [ok |-> FALSE, db |-> db]
    ELSE ApplyAll(Apply(db, ws[i]), ws, i + 1)

\* A transaction's own view while it runs: its snapshot with its writes.
Local(db, ws) == ApplyAll(db, ws, 1).db


\* --------------------------------------------------------------- handlers
\* A handler body, run on the rows `snap` its transaction reads, gives
\* [code, writes, out]: "OK" or the code of the ApiError it throws, the
\* write statements issued up to that point, and what it returns.
NoOut == [id |-> NULL, version |-> NULL, status |-> NULL, applied |-> NULL,
          items |-> <<>>]

Present(u) == {f \in {"countedQty", "correctedQty", "note"} : u[f] # NULL}

FindItem(db, d, sku) == IF sku \in Skus THEN db.items[d][sku] ELSE NoItem
\* A barcode lookup that ignores the code asked for.
findBarcodeAny(db, d, b) == IF b \in Codes THEN db.barcodes[d]["b2"] ELSE NoBarcode
FindBarcode(db, d, b) == IF b \in Codes THEN db.barcodes[d][b] ELSE NoBarcode
FindDocument(db, id) == IF id \in DOMAIN db.docs THEN db.docs[id] ELSE NoDoc

\* A findFirst that takes the oldest of the matching documents.
findFirstAsc(db, found) ==
    CHOOSE d \in found : \A e \in found : db.docs[d].createdAt <= db.docs[e].createdAt

\* inventoryDocument.findFirst({ orderBy: { createdAt: 'desc' } }) over the
\* documents in `found`, which is not empty.
findFirst(db, found) ==
    CHOOSE d \in found : \A e \in found : db.docs[e].createdAt <= db.docs[d].createdAt

\* resolveDocumentId: id, then externalId, then the newest document with
\* that onecNumber; NULL when none matches.
resolveDocumentId(db, key) ==
    IF FindDocument(db, key).exists THEN Some(key)
    ELSE LET byExt == {d \in DOMAIN db.docs :
                          db.docs[d].exists /\ db.docs[d].externalId = key}
             byNum == {d \in DOMAIN db.docs :
                          db.docs[d].exists /\ db.docs[d].onecNumber = key}
         IN  IF byExt # {} THEN Some(CHOOSE d \in byExt : TRUE)
             ELSE IF byNum # {} THEN Some(findFirst(db, byNum))
             ELSE NULL

RECURSIVE documentItems(_, _, _)
\* The `items: { include: { barcodes: true } }` of getDocument.
documentItems(snap, id, i) ==
    IF i > Len(SkuSeq) THEN <<>>
    ELSE LET item == snap.items[id][SkuSeq[i]]
             rest == documentItems(snap, id, i + 1)
         IN  IF item.exists
             THEN << [sku |-> SkuSeq[i], item |-> item,
                      barcodes |-> {b \in Codes : /\ snap.barcodes[id][b].exists
                                                  /\ snap.barcodes[id][b].sku = SkuSeq[i]}] >>
                  \o rest
             ELSE rest

\* InventoryService.getDocument(id)
getDocument(snap, key) ==
    LET resolvedId == resolveDocumentId(snap, key) IN
    IF resolvedId = NULL THEN [code |-> "NOT_FOUND", writes |-> <<>>, out |-> NoOut]
    ELSE
      LET document == snap.docs[Val(resolvedId)] IN
      [code |-> "OK", writes |-> <<>>,
       out |-> [NoOut EXCEPT !.id = resolvedId,
                             !.version = Some(document.version),
                             !.status = Some(document.status),
                             !.items = documentItems(snap, Val(resolvedId), 1)]]

\* updateItems, the new value of a quantity column:
\*   base = currentItem?.countedQty ?? new Prisma.Decimal(0);  base.add(add)
newQuantity(current, add) == DecAdd(Coalesce(current, Some(0)), add)

\* A lock that only rejects a version the document has not reached yet.
versionAhead(document, payload) == document.version < payload.version

\* updateItems, the optimistic lock:  document.version !== payload.version
versionConflict(document, payload) == document.version # payload.version

\* A version increment made once per submitted item instead of once per call.
bumpVersionPerItem(id, payload) ==
    [t |-> "document.update", id |-> id, data |-> [increment |-> Len(payload.items)]]

\* updateItems, the closing  document.update({ data: { version: { increment: 1 } } })
bumpVersion(id, payload) ==
    [t |-> "document.update", id |-> id, data |-> [increment |-> 1]]

RECURSIVE updateItemsLoop(_, _, _, _, _)
\* The `for (const itemUpdate of payload.items)` loop of updateItems.
updateItemsLoop(snap, id, payload, i, ws) ==
    IF i > Len(payload.items) THEN [code |-> "OK", writes |-> ws]
    ELSE
      LET u   == payload.items[i]
          loc == Local(snap, ws)
          bc  == FindBarcode(loc, id, Val(u.barcode))
      IN
      IF u.sku # NULL /\ ~FindItem(loc, id, Val(u.sku)).exists
        THEN [code |-> "NOT_FOUND", writes |-> ws]
      ELSE IF u.sku = NULL /\ u.barcode # NULL /\ ~bc.exists
        THEN [code |-> "NOT_FOUND", writes |-> ws]
      ELSE IF u.sku = NULL /\ u.barcode = NULL
        THEN [code |-> "BAD_REQUEST", writes |-> ws]
      ELSE
        LET itemId       == IF u.sku # NULL THEN Val(u.sku) ELSE bc.sku
            currentItem  == loc.items[id][itemId]
            newCounted   == IF u.countedQty # NULL
                            THEN newQuantity(currentItem.countedQty, u.countedQty)
                            ELSE NULL
            newCorrected == IF u.correctedQty # NULL
                            THEN newQuantity(currentItem.correctedQty, u.correctedQty)
                            ELSE NULL
            updateData   == [f \in Present(u) |->
                               CASE f = "countedQty"   -> newCounted
                                 [] f = "correctedQty" -> newCorrected
                                 [] f = "note"         -> u.note]
            upd == [t |-> "item.update", documentId |-> id, sku |-> itemId,
                    data |-> updateData]
            chg == [t |-> "change.create", createdAt |-> 0,
                    row |-> [documentId |-> id, itemId |-> itemId,
                             deviceId |-> Val(Coalesce(payload.deviceId, Some("unknown"))),
                             countedQty |-> newCounted,
                             correctedQty |-> newCorrected,
                             note |-> u.note]]
        IN  updateItemsLoop(snap, id, payload, i + 1,
                IF Present(u) # {} THEN ws \o <<upd, chg>> ELSE ws \o <<upd>>)

\* InventoryService.updateItems(id, payload)
updateItems(snap, id, payload) ==
    LET document == FindDocument(snap, id) IN
    IF ~document.exists THEN [code |-> "NOT_FOUND", writes |-> <<>>, out |-> NoOut]
    ELSE IF versionConflict(document, payload)
      THEN [code |-> "CONFLICT", writes |-> <<>>, out |-> NoOut]
    ELSE
      LET r == updateItemsLoop(snap, id, payload, 1, <<>>) IN
      IF r.code # "OK" THEN [code |-> r.code, writes |-> r.writes, out |-> NoOut]
      ELSE [code |-> "OK",
            writes |-> Append(r.writes, bumpVersion(id, payload)),
            out |-> NoOut]

\* A delta left null for an item nobody counted.
reviseDeltaOfCounted(item) ==
    IF item.correctedQty = NULL /\ item.countedQty = NULL THEN NULL
    ELSE DecSub(Coalesce(item.correctedQty, item.countedQty), Some(item.qtyFrom1C))

\* revise, one item:  (correctedQty ?? (countedQty ?? 0)).sub(qtyFrom1C)
reviseDelta(item) ==
    LET counted       == Coalesce(item.countedQty, Some(0))
        correctedBase == Coalesce(item.correctedQty, counted)
    IN  DecSub(correctedBase, Some(item.qtyFrom1C))

RECURSIVE reviseLoop(_, _, _, _)
\* The `for (const item of document.items)` loop of revise.
reviseLoop(snap, id, i, ws) ==
    IF i > Len(SkuSeq) THEN ws
    ELSE LET item == snap.items[id][SkuSeq[i]] IN
         reviseLoop(snap, id, i + 1,
            IF item.exists
            THEN Append(ws, [t |-> "item.update", documentId |-> id, sku |-> SkuSeq[i],
                             data |-> [deltaQty |-> reviseDelta(item)]])
            ELSE ws)

\* InventoryService.revise(id)
revise(snap, id) ==
    LET document == FindDocument(snap, id) IN
    IF ~document.exists THEN [code |-> "NOT_FOUND", writes |-> <<>>, out |-> NoOut]
    ELSE [code |-> "OK",
          writes |-> Append(reviseLoop(snap, id, 1, <<>>),
                       [t |-> "document.update", id |-> id,
                        data |-> [status |-> "REVISED", increment |-> 1]]),
          out |-> NoOut]

\* InventoryService.ack(id)
\* An ack that takes a document once only.
ackableOnce(document) == document.status = "REVISED"

\* An ack that takes a document in any status.
ackableAlways(document) == document.status \in {"IMPORTED", "REVISED", "EXPORTED"}

\* An ack that takes only a document that is EXPORTED already.
ackableExported(document) == document.status = "EXPORTED"

\* ack, the status gate: REVISED or EXPORTED.
ackable(document) == document.status = "REVISED" \/ document.status = "EXPORTED"

ack(snap, key) ==
    LET resolvedId == resolveDocumentId(snap, key) IN
    IF resolvedId = NULL THEN [code |-> "NOT_FOUND", writes |-> <<>>, out |-> NoOut]
    ELSE
      LET document == snap.docs[Val(resolvedId)] IN
      IF ~ackable(document)
        THEN [code |-> "UNPROCESSABLE_ENTITY", writes |-> <<>>, out |-> NoOut]
      ELSE [code |-> "OK",
            writes |-> << [t |-> "document.update", id |-> Val(resolvedId),
                           data |-> [status |-> "EXPORTED"]] >>,
            out |-> NoOut]


\* A merge that also assigns the submitted fields to the item row.
mergeWritesItem(id, sku, u, chg) ==
    << [t |-> "item.update", documentId |-> id, sku |-> sku,
        data |-> [f \in Present(u) |-> u[f]]],
       chg >>

\* updateItemsWithMerge, the writes for one accepted item update: the
\* inventoryItemChange row and nothing else.
mergeWrites(id, sku, u, chg) == << chg >>

\* An update counted as carrying something only when it carries a quantity.
hasUpdatesQuantity(itemUpdate) ==
    itemUpdate.countedQty # NULL \/ itemUpdate.correctedQty # NULL

\* updateItemsWithMerge, `hasUpdates`: the update carries a counted quantity,
\* a corrected quantity or a note.
hasUpdates(itemUpdate) ==
    \/ itemUpdate.countedQty # NULL
    \/ itemUpdate.correctedQty # NULL
    \/ itemUpdate.note # NULL

RECURSIVE updateItemsWithMergeLoop(_, _, _, _, _)
\* The loop of updateItemsWithMerge: gives [writes, applied].
updateItemsWithMergeLoop(snap, id, payload, i, acc) ==
    IF i > Len(payload.items) THEN acc
    ELSE
      LET u  == payload.items[i]
          bc == FindBarcode(snap, id, Val(u.barcode))
          targetItem ==
              IF u.sku # NULL
                THEN (IF FindItem(snap, id, Val(u.sku)).exists THEN u.sku ELSE NULL)
              ELSE IF u.barcode # NULL /\ bc.exists /\ snap.items[id][bc.sku].exists
                THEN Some(bc.sku)
              ELSE NULL
          chg == [t |-> "change.create", createdAt |-> 0,
                  row |-> [documentId |-> id, itemId |-> Val(targetItem),
                           deviceId |-> Val(Coalesce(payload.deviceId, Some("unknown"))),
                           countedQty |-> u.countedQty,
                           correctedQty |-> u.correctedQty,
                           note |-> u.note]]
      IN  updateItemsWithMergeLoop(snap, id, payload, i + 1,
              IF targetItem # NULL /\ hasUpdates(u)
              THEN [writes |-> acc.writes \o mergeWrites(id, Val(targetItem), u, chg),
                    applied |-> acc.applied + 1]
              ELSE acc)

\* InventoryServiceV2.updateItemsWithMerge(id, payload)
updateItemsWithMerge(snap, key, payload) ==
    LET resolvedId == resolveDocumentId(snap, key) IN
    IF resolvedId = NULL THEN [code |-> "NOT_FOUND", writes |-> <<>>, out |-> NoOut]
    ELSE
      LET document == snap.docs[Val(resolvedId)]
          r == updateItemsWithMergeLoop(snap, Val(resolvedId), payload, 1,
                                        [writes |-> <<>>, applied |-> 0])
      IN  [code |-> "OK", writes |-> r.writes,
           out |-> [NoOut EXCEPT !.version = Some(document.version),
                                 !.applied = Some(r.applied)]]

\* A document upsert whose `update` branch repeats the `create` branch.
importDocumentReset(payload) ==
    [onecNumber |-> payload.onecNumber, onecDate |-> payload.onecDate,
     warehouseCode |-> payload.warehouse.code, status |-> "IMPORTED", version |-> 1]

\* importFrom1C, the `update` branch of the document upsert.
importDocumentUpdate(payload) ==
    [onecNumber |-> payload.onecNumber, onecDate |-> payload.onecDate,
     warehouseCode |-> payload.warehouse.code]

\* A quantity as the import payload carries it, a string: a numeral, then
\* possibly more characters.
Text(digits, rest) == [digits |-> digits, rest |-> rest]

\* new Prisma.Decimal(text): the number the numeral denotes; the constructor
\* throws (NULL here) when anything follows the numeral.
Decimal(text) == IF text.rest = "" THEN Some(text.digits) ELSE NULL

\* An item update that starts the recount of the item over.
importItemRecount(item) ==
    [name |-> item.name, unit |-> item.unit, qtyFrom1C |-> Val(Decimal(item.qtyFrom1C)),
     countedQty |-> NULL, correctedQty |-> NULL, deltaQty |-> NULL]

\* importFrom1C, the data of inventoryItem.update for an item that exists.
importItemUpdate(item) ==
    [name |-> item.name, unit |-> item.unit, qtyFrom1C |-> Val(Decimal(item.qtyFrom1C))]

RECURSIVE importItemsLoop(_, _, _, _, _)
\* The `for (const item of payload.items)` loop of importFrom1C: gives
\* [code, writes], the code "INTERNAL" when building an item's data throws.
importItemsLoop(snap, id, payload, i, ws) ==
    IF i > Len(payload.items) THEN [code |-> "OK", writes |-> ws]
    ELSE
      LET item     == payload.items[i]
          existing == Local(snap, ws).items[id][item.sku]
          row == IF existing.exists
                 THEN [t |-> "item.update", documentId |-> id, sku |-> item.sku,
                       data |-> importItemUpdate(item)]
                 ELSE [t |-> "item.create", documentId |-> id, sku |-> item.sku,
                       name |-> item.name, unit |-> item.unit,
                       qtyFrom1C |-> Val(Decimal(item.qtyFrom1C))]
          del == [t |-> "barcode.deleteMany", documentId |-> id, sku |-> item.sku]
          ins == [t |-> "barcode.createMany", documentId |-> id, sku |-> item.sku,
                  barcodes |-> item.barcodes]
      IN  IF Decimal(item.qtyFrom1C) = NULL
          THEN [code |-> "INTERNAL", writes |-> ws]
          ELSE importItemsLoop(snap, id, payload, i + 1,
                  IF Len(item.barcodes) > 0 THEN ws \o <<row, del, ins>>
                  ELSE ws \o <<row, del>>)

\* InventoryService.importFrom1C(payload)
importFrom1C(snap, payload) ==
    LET found == {d \in DocIds : snap.docs[d].exists
                                 /\ snap.docs[d].externalId = payload.externalId}
        id    == IF found # {} THEN CHOOSE d \in found : TRUE
                 ELSE CHOOSE d \in DocIds : ~snap.docs[d].exists
        wh    == [t |-> "warehouse.upsert", code |-> payload.warehouse.code,
                  name |-> payload.warehouse.name]
        doc   == IF found # {}
                 THEN [t |-> "document.update", id |-> id,
                       data |-> importDocumentUpdate(payload)]
                 ELSE [t |-> "document.create", id |-> id,
                       externalId |-> payload.externalId,
                       onecNumber |-> payload.onecNumber,
                       onecDate |-> payload.onecDate,
                       warehouseCode |-> payload.warehouse.code]
        r     == importItemsLoop(snap, id, payload, 1, <<wh, doc>>)
    IN  [code |-> r.code, writes |-> r.writes, out |-> NoOut]

\* ----------------------------------------------------------------- export
RECURSIVE SumOver(_, _)
\* The sum of f[x] over the keys x in S.
SumOver(f, S) ==
    IF S = {} THEN 0
    ELSE LET x == CHOOSE y \in S : TRUE IN f[x] + SumOver(f, S \ {x})

\* inventoryItemChange.findMany ordered by createdAt: the rows of the log by
\* ascending createdAt, rows of equal createdAt in any order.
ByCreatedAt(log) ==
    IF log = <<>> THEN { <<>> }
    ELSE LET n == Len(log) IN
         { [i \in 1..n |-> log[f[i]]] :
             f \in { g \in [1..n -> 1..n] :
                       /\ \A i \in 1..n : \A j \in 1..n : i # j => g[i] # g[j]
                       /\ \A i \in 1..n : \A j \in 1..n :
                             i < j => log[g[i]].createdAt <= log[g[j]].createdAt } }

\* The first row a device wrote for the item.
earliestChange(arr) == arr[1]

\* exportFor1C, `latest` of the rows arr of one device for one item, in the
\* order of the findMany result: the first one that has the greatest
\* createdAt.
latestChange(arr) ==
    arr[CHOOSE k \in 1..Len(arr) : \A j \in 1..Len(arr) :
            \/ arr[j].createdAt < arr[k].createdAt
            \/ arr[j].createdAt = arr[k].createdAt /\ k <= j]

\* exportFor1C, one item: the latest ItemChange row of each device summed,
\* or the item's own columns when no device has a row for it.  `changes` is
\* the findMany result.
exportItem(id, sku, item, bcs, changes) ==
    LET rowsOf(dev) == SelectSeq(changes, LAMBDA ch :
                          /\ ch.documentId = id
                          /\ ch.itemId = sku
                          /\ ch.deviceId = dev)
        devs        == {changes[k].deviceId : k \in
                          {j \in 1..Len(changes) : changes[j].documentId = id
                                                   /\ changes[j].itemId = sku}}
        latest(dev) == latestChange(rowsOf(dev))
        counted     == [dev \in devs |-> Val(Coalesce(latest(dev).countedQty, Some(0)))]
        corrected   == [dev \in devs |-> Val(Coalesce(latest(dev).correctedQty, Some(0)))]
        countedSum   == IF devs = {} THEN Val(Coalesce(item.countedQty, Some(0)))
                        ELSE SumOver(counted, devs)
        correctedSum == IF devs = {} THEN Val(Coalesce(item.correctedQty, Some(countedSum)))
                        ELSE SumOver(corrected, devs)
    IN  [sku |-> sku, unit |-> item.unit,
         correctedQty |-> correctedSum, countedQty |-> countedSum,
         deltaQty |-> correctedSum - item.qtyFrom1C,
         barcodes |-> {b \in Codes : bcs[b].exists /\ bcs[b].sku = sku}]

RECURSIVE exportItems(_, _, _, _)
exportItems(snap, id, changes, i) ==
    IF i > Len(SkuSeq) THEN <<>>
    ELSE LET item == snap.items[id][SkuSeq[i]]
             rest == exportItems(snap, id, changes, i + 1)
         IN  IF item.exists
             THEN <<exportItem(id, SkuSeq[i], item, snap.barcodes[id], changes)>> \o rest
             ELSE rest

\* An export that marks the document EXPORTED as it reads it.
exportFor1CMarking(snap, key, changes) ==
    LET resolvedId == resolveDocumentId(snap, key) IN
    IF resolvedId = NULL THEN [code |-> "NOT_FOUND", writes |-> <<>>, out |-> NoOut]
    ELSE [code |-> "OK",
          writes |-> << [t |-> "document.update", id |-> Val(resolvedId),
                         data |-> [status |-> "EXPORTED"]] >>,
          out |-> [NoOut EXCEPT !.items = exportItems(snap, Val(resolvedId), changes, 1)]]

\* InventoryService.exportFor1C(id): the document is read first (snap), the
\* change log in a later statement (changes); there is no transaction.
exportFor1C(snap, key, changes) ==
    LET resolvedId == resolveDocumentId(snap, key) IN
    IF resolvedId = NULL THEN [code |-> "NOT_FOUND", writes |-> <<>>, out |-> NoOut]
    ELSE [code |-> "OK", writes |-> <<>>,
          out |-> [NoOut EXCEPT !.items = exportItems(snap, Val(resolvedId), changes, 1)]]


\* ------------------------------------------------------------------ state
VARIABLES
    warehouses,   \* Warehouse rows: code -> name
    docs,         \* InventoryDocument rows by id
    items,        \* InventoryItem rows by (documentId, sku)
    barcodes,     \* InventoryItemBarcode rows by (documentId, barcode)
    changes,      \* InventoryItemChange rows in insertion order
    tx            \* per caller: the call in flight or the last response

vars == <<warehouses, docs, items, barcodes, changes, tx>>

Db == [warehouses |-> warehouses, docs |-> docs, items |-> items,
       barcodes |-> barcodes, changes |-> changes]

\* What a transaction can read: no handler reads the change log inside one.
Snapshot == [Db EXCEPT !.changes = <<>>]

NoPayload == [none |-> TRUE]

\* pc: idle, running (between the first read and the end of the call) or
\* done (the response is out).  seen, was: the version and the status of the
\* document the call read, when it read one.  since: the length of the
\* change log when the call began, for an updateItemsWithMerge call.
\* hist: for a read that is watched, the committed states of the store from
\* its first statement on (a history of the run, no handler reads it).
Idle == [pc |-> "idle", op |-> "none", key |-> "", payload |-> NoPayload,
         seen |-> NULL, was |-> NULL, since |-> 0, hist |-> NULL,
         snap |-> EmptyDb, code |-> "", http |-> NULL, out |-> NoOut]

Init ==
    /\ warehouses = EmptyDb.warehouses
    /\ docs = EmptyDb.docs
    /\ items = EmptyDb.items
    /\ barcodes = EmptyDb.barcodes
    /\ changes = EmptyDb.changes
    /\ tx = [p \in Procs |-> Idle]

\* ----------------------------------------------------------------- inputs
ItemUpdate(sku, barcode, counted, corrected, note) ==
    [sku |-> sku, barcode |-> barcode, countedQty |-> counted,
     correctedQty |-> corrected, note |-> note, lastKnownModified |-> NULL]

\* An item update of UpdateItemsPayloadV2 that carries lastKnownModified.
\* Times are counted from the first import of the document, which is time 0;
\* every later write is later than 0.
Stamped(itemUpdate, lastKnownModified) ==
    [itemUpdate EXCEPT !.lastKnownModified = Some(lastKnownModified)]

Qtys == {Some(q) : q \in 1..MaxQty}

FieldChoices ==
    { <<q, NULL, NULL>> : q \in Qtys }
    \cup { <<NULL, Some(MaxQty), NULL>>, <<NULL, NULL, Some("n")>>,
           <<Some(1), Some(1), Some("n")>>, <<NULL, NULL, NULL>> }

CountOne(sku, barcode) == ItemUpdate(sku, barcode, Some(1), NULL, NULL)

\* Item updates of the interleaved runs: one item, by sku.
FewUpdates == { CountOne(Some("A"), NULL) }

\* Item updates of the serial runs.  Item A by sku and by its barcode b1, with
\* each field alone, a note alone, all fields together and no field; item B;
\* an unknown sku ("Z"), an unknown barcode ("b9"), no reference at all.
ManyUpdates ==
    { ItemUpdate(Some("A"), NULL, f[1], f[2], f[3]) : f \in FieldChoices }
    \cup { ItemUpdate(NULL, Some("b1"), f[1], f[2], f[3]) : f \in FieldChoices }
    \cup { CountOne(Some("B"), NULL), CountOne(Some("Z"), NULL),
           CountOne(NULL, Some("b9")), CountOne(NULL, NULL) }

\* The first update of a batch of two.
LeadUpdates ==
    { CountOne(Some("A"), NULL), CountOne(Some("B"), NULL),
      ItemUpdate(NULL, Some("b1"), NULL, Some(MaxQty), NULL) }

FewBatches == { <<u>> : u \in FewUpdates }

ManyBatches ==
    {<<>>} \cup { <<u>> : u \in ManyUpdates }
           \cup { <<u, v>> : u \in LeadUpdates, v \in ManyUpdates }

\* updateItemsWithMerge batches of the serial runs.
MergeBatches ==
    { <<ItemUpdate(Some("A"), NULL, f[1], f[2], f[3])>> : f \in FieldChoices }
    \cup { <<CountOne(NULL, Some("b1"))>>, <<CountOne(Some("Z"), NULL)>>,
           <<CountOne(Some("Z"), NULL), CountOne(Some("A"), NULL)>>,
           <<CountOne(Some("A"), NULL), CountOne(Some("B"), NULL)>>,
           <<CountOne(Some("A"), NULL),
             ItemUpdate(NULL, Some("b1"), Some(MaxQty), Some(1), NULL)>> }

\* updateItemsWithMerge batches from a device that last saw item A when the
\* document was first imported.
StampedBatches ==
    { <<Stamped(ItemUpdate(Some("A"), NULL, f[1], f[2], f[3]), 0)>> :
         f \in { <<Some(1), NULL, NULL>>, <<Some(1), Some(1), Some("n")>>,
                 <<NULL, NULL, Some("n")>> } }

\* updateItemsWithMerge batches of the devices that count item A in
\* parallel: a count of 1, a count of MaxQty, a correction.
RaceBatches ==
    { <<ItemUpdate(Some("A"), NULL, Some(1), NULL, NULL)>>,
      <<ItemUpdate(Some("A"), NULL, Some(MaxQty), NULL, NULL)>>,
      <<ItemUpdate(Some("A"), NULL, NULL, Some(1), NULL)>> }

\* updateItems batches around the item reference: sku and barcode both
\* given (b2 is a barcode of item B), neither given, alone and after an
\* update that is in order.
RefBatches ==
    { <<CountOne(Some("A"), NULL)>>,
      <<CountOne(Some("A"), Some("b2"))>>,
      <<CountOne(NULL, NULL)>>,
      <<CountOne(Some("A"), NULL), CountOne(Some("A"), Some("b2"))>>,
      <<CountOne(Some("A"), NULL), CountOne(NULL, NULL)>> }

UpdatePayloads(versions, devs, batches) ==
    [version : versions, deviceId : devs, items : batches]

ImportItem(sku, qty, bcs) ==
    [sku |-> sku, name |-> "name", unit |-> "pcs", qtyFrom1C |-> Text(qty, ""),
     barcodes |-> bcs]

ImportPayload(its) ==
    [externalId |-> "e1", onecNumber |-> "n1", onecDate |-> "day1",
     warehouse |-> [code |-> "w1", name |-> "main"], items |-> its]

FewImports ==
    { ImportPayload(<<ImportItem("A", 1, <<"b1">>), ImportItem("B", MaxQty, <<"b2">>)>>) }

ManyImports ==
    FewImports \cup
    { ImportPayload(<<ImportItem("A", 1, <<"b2">>), ImportItem("B", MaxQty, <<"b1">>)>>),
      ImportPayload(<<ImportItem("A", MaxQty, <<"b2", "b1">>)>>),
      ImportPayload(<<ImportItem("A", 1, <<"b1">>), ImportItem("B", MaxQty, <<"b1", "b2">>)>>),
      [ImportPayload(<<ImportItem("B", 1, <<>>)>>) EXCEPT !.onecDate = "day2"] }

\* An import that throws at its second item, after the writes of the first:
\* "1x" passes the route's parseFloat and fails in new Prisma.Decimal.
BadImports ==
    { ImportPayload(<<ImportItem("A", MaxQty, <<"b2">>),
                      [ImportItem("B", 1, <<"b1">>) EXCEPT !.qtyFrom1C = Text(1, "x")]>>) }

\* Document tables for the key lookup: up to three documents, external ids
\* unique, one of them ("d2") equal to the id of another document, a
\* onecNumber ("e1") equal to an external id, documents created in any order.
ResolveIds == {"d1", "d2", "d3"}

ResolveDoc(externalId, onecNumber, createdAt) ==
    [exists |-> TRUE, externalId |-> externalId, onecNumber |-> onecNumber,
     onecDate |-> "day1", warehouseCode |-> "w1", status |-> "IMPORTED",
     version |-> 1, createdAt |-> createdAt]

ResolveTables ==
    { t \in [ResolveIds ->
               {NoDoc} \cup { ResolveDoc(e, n, c) : e \in {"e1", "d2", "e3"},
                                                   n \in {"n1", "e1"}, c \in 1..3 }] :
        \A d \in ResolveIds : \A e \in ResolveIds \ {d} :
            (t[d].exists /\ t[e].exists)
            => t[d].externalId # t[e].externalId /\ t[d].createdAt # t[e].createdAt }

ResolveKeys == {"d1", "d2", "e1", "n1", "zz"}

\* Imports that give item A a different quantity each.
ReadImports ==
    { ImportPayload(<<ImportItem("A", q, <<"b1">>)>>) : q \in {1, MaxQty} }

FewKeys  == {"d1"}
ManyKeys == {"d1", "e1", "n1", "zz"}

\* Calls with a payload: every payload under the document's id, one payload
\* under each other key.
Keyed(keys, payloads) ==
    { <<"d1", pl>> : pl \in payloads }
    \cup { <<k, CHOOSE pl \in payloads : pl.version = 1>> : k \in keys }

\* ---------------------------------------------------------------- actions
\* A caller submits a call: the first read fixes what the call sees.
\* The call of p right after its first read.
Begun(op, key, payload, hist) ==
    [pc |-> "running", op |-> op, key |-> key, payload |-> payload,
     seen |-> IF resolveDocumentId(Snapshot, key) = NULL THEN NULL
              ELSE Some(docs[Val(resolveDocumentId(Snapshot, key))].version),
     was |-> IF resolveDocumentId(Snapshot, key) = NULL THEN NULL
             ELSE Some(docs[Val(resolveDocumentId(Snapshot, key))].status),
     since |-> IF op = "updateItemsWithMerge" THEN Len(changes) ELSE 0,
     hist |-> hist,
     snap |-> Snapshot, code |-> "", http |-> NULL, out |-> NoOut]

Call(p, op, key, payload) ==
    /\ tx[p].pc = "idle"
    /\ tx' = [tx EXCEPT ![p] = Begun(op, key, payload, NULL)]
    /\ UNCHANGED <<warehouses, docs, items, barcodes, changes>>

\* A read (exportFor1C, getDocument) whose run is watched.
CallRead(p, ops, keys) ==
    /\ tx[p].pc = "idle"
    /\ \E op \in ops : \E key \in keys :
          tx' = [tx EXCEPT ![p] = Begun(op, key, NoPayload, Some({Db}))]
    /\ UNCHANGED <<warehouses, docs, items, barcodes, changes>>

CallImport(p, pool) ==
    /\ tx[p].pc = "idle"
    /\ \E payload \in pool : Call(p, "importFrom1C", payload.externalId, payload)

CallUpdateItems(p, pool) ==
    /\ tx[p].pc = "idle"
    /\ \E c \in pool : Call(p, "updateItems", c[1], c[2])

CallUpdateItemsWithMerge(p, pool) ==
    /\ tx[p].pc = "idle"
    /\ \E c \in pool : Call(p, "updateItemsWithMerge", c[1], c[2])

CallRevise(p, keys) ==
    /\ tx[p].pc = "idle"
    /\ \E key \in keys : Call(p, "revise", key, NoPayload)

CallExport(p, keys) ==
    /\ tx[p].pc = "idle"
    /\ \E key \in keys : Call(p, "exportFor1C", key, NoPayload)

CallGet(p, keys) ==
    /\ tx[p].pc = "idle"
    /\ \E key \in keys : Call(p, "getDocument", key, NoPayload)

CallAck(p, keys) ==
    /\ tx[p].pc = "idle"
    /\ \E key \in keys : Call(p, "ack", key, NoPayload)

\* The writes of fn issued on the client instead of the transaction: those
\* made before a throw stay.
NoTransaction(r) == r.writes

\* prisma.$transaction(fn): the writes of fn are committed when fn returns
\* and rolled back when it throws.
Transaction(r) == IF r.code = "OK" THEN r.writes ELSE <<>>

WithinBounds(db) ==
    /\ \A d \in DocIds : db.docs[d].exists => db.docs[d].version <= MaxVersion
    /\ Len(db.changes) <= MaxChanges

\* A catch block that has no line for CONFLICT.
statusWithoutConflict(code) ==
    CASE code = "NOT_FOUND"   -> 404
      [] code = "BAD_REQUEST" -> 400
      [] OTHER                -> 500

\* The catch block of PATCH /inventory-documents/:id/items.
itemsRouteStatus(code) ==
    CASE code = "NOT_FOUND"   -> 404
      [] code = "CONFLICT"    -> 409
      [] code = "BAD_REQUEST" -> 400
      [] OTHER                -> 500

\* The catch block of PATCH /inventory-documents/:id/items/v2.
itemsV2RouteStatus(code) ==
    CASE code = "NOT_FOUND"   -> 404
      [] code = "CONFLICT"    -> 409
      [] code = "BAD_REQUEST" -> 400
      [] OTHER                -> 500

\* The catch block of GET /onec/inventory-documents/:id/export.
exportRouteStatus(code) ==
    CASE code = "NOT_FOUND"            -> 404
      [] code = "UNPROCESSABLE_ENTITY" -> 422
      [] code = "BAD_REQUEST"          -> 400
      [] OTHER                         -> 500

\* The catch block of GET /inventory-documents/:id.
getRouteStatus(code) ==
    CASE code = "NOT_FOUND"   -> 404
      [] code = "BAD_REQUEST" -> 400
      [] OTHER                -> 500

\* The catch block of POST /onec/inventory-documents/import.
importRouteStatus(code) ==
    CASE code = "NOT_FOUND"   -> 404
      [] code = "BAD_REQUEST" -> 400
      [] OTHER                -> 500

\* The HTTP status a route answers with when its service call ends with
\* `code`; an error without an ApiError code is "INTERNAL".  The routes of
\* revise and ack are not among the sources: NULL.
routeStatus(op, code) ==
    IF op \in {"revise", "ack"} THEN NULL
    ELSE IF code = "OK" THEN Some(200)
    ELSE CASE op = "updateItems"          -> Some(itemsRouteStatus(code))
           [] op = "updateItemsWithMerge" -> Some(itemsV2RouteStatus(code))
           [] op = "exportFor1C"          -> Some(exportRouteStatus(code))
           [] op = "getDocument"          -> Some(getRouteStatus(code))
           [] op = "importFrom1C"         -> Some(importRouteStatus(code))

\* The clock of the store when a call writes: createdAt has millisecond
\* resolution, so the rows one call inserts may all get the same createdAt,
\* and they get a later one than the rows of the calls that ended before.
Now == IF changes = <<>> THEN 1 ELSE changes[Len(changes)].createdAt + 1

\* The statements ws with createdAt filled in for the inserted change rows.
Clocked(ws) ==
    [i \in DOMAIN ws |->
        IF ws[i].t = "change.create" THEN [ws[i] EXCEPT !.createdAt = Now]
        ELSE ws[i]]

\* The call of p runs to its end with outcome r.
Finish(p, r) ==
    LET a    == ApplyAll(Db, Clocked(Transaction(r)), 1)
        db2  == IF a.ok THEN a.db ELSE Db
        code == IF a.ok THEN r.code ELSE "INTERNAL"
        t    == tx[p]
        out  == IF code = "OK" /\ t.op \in {"updateItems", "revise"}
                THEN [r.out EXCEPT !.version = Some(db2.docs[t.key].version),
                                   !.status  = Some(db2.docs[t.key].status)]
                ELSE IF code = "OK" THEN r.out ELSE NoOut
    IN  /\ WithinBounds(db2)
        /\ \A q \in Procs \ {p} :
              (tx[q].pc = "running" /\ tx[q].hist # NULL)
              => db2 \in Val(tx[q].hist) \/ Cardinality(Val(tx[q].hist)) < MaxHist
        /\ warehouses' = db2.warehouses
        /\ docs' = db2.docs
        /\ items' = db2.items
        /\ barcodes' = db2.barcodes
        /\ changes' = db2.changes
        /\ tx' = [q \in Procs |->
                    IF q = p
                    THEN [pc |-> "done", op |-> t.op, key |-> t.key,
                          payload |-> t.payload, seen |-> t.seen, was |-> t.was,
                          since |-> t.since, hist |-> NULL,
                          snap |-> EmptyDb, code |-> code,
                          http |-> routeStatus(t.op, code), out |-> out]
                    ELSE IF tx[q].pc = "running" /\ tx[q].hist # NULL
                    THEN [tx[q] EXCEPT !.hist = Some(Val(@) \cup {db2})]
                    ELSE tx[q]]

Running(p, op) == tx[p].pc = "running" /\ tx[p].op = op

ImportFrom1C(p) ==
    Running(p, "importFrom1C") /\ Finish(p, importFrom1C(tx[p].snap, tx[p].payload))

UpdateItems(p) ==
    Running(p, "updateItems")
    /\ Finish(p, updateItems(tx[p].snap, tx[p].key, tx[p].payload))

UpdateItemsWithMerge(p) ==
    Running(p, "updateItemsWithMerge")
    /\ Finish(p, updateItemsWithMerge(tx[p].snap, tx[p].key, tx[p].payload))

Revise(p) == Running(p, "revise") /\ Finish(p, revise(tx[p].snap, tx[p].key))

ExportFor1C(p) ==
    /\ Running(p, "exportFor1C")
    /\ \E found \in ByCreatedAt(changes) :
          Finish(p, exportFor1C(tx[p].snap, tx[p].key, found))

GetDocument(p) ==
    Running(p, "getDocument") /\ Finish(p, getDocument(tx[p].snap, tx[p].key))

Ack(p) == Running(p, "ack") /\ Finish(p, ack(tx[p].snap, tx[p].key))

\* The transaction exceeds maxWait/timeout: it is rolled back and the caller
\* gets an unclassified error.
Abort(p) ==
    /\ tx[p].pc = "running"
    /\ tx[p].op \notin {"exportFor1C", "getDocument"}
    /\ Finish(p, [code |-> "INTERNAL", writes |-> <<>>, out |-> NoOut])

\* The caller has its response and may call again.
Return(p) ==
    /\ tx[p].pc = "done"
    /\ tx' = [tx EXCEPT ![p] = Idle]
    /\ UNCHANGED <<warehouses, docs, items, barcodes, changes>>

Step(p) ==
    \/ ImportFrom1C(p)
    \/ UpdateItems(p)
    \/ UpdateItemsWithMerge(p)
    \/ Revise(p)
    \/ ExportFor1C(p)
    \/ Ack(p)
    \/ Return(p)

\* Callers in parallel, a small choice of inputs.
Next ==
    \E p \in Procs :
        \/ CallImport(p, FewImports \cup BadImports)
        \/ CallUpdateItems(p, Keyed(FewKeys,
              UpdatePayloads(1..MaxVersion, {NULL}, FewBatches)))
        \/ CallUpdateItemsWithMerge(p, Keyed(FewKeys,
              UpdatePayloads({1}, {Some("t1")}, FewBatches)))
        \/ CallRevise(p, FewKeys)
        \/ CallExport(p, FewKeys)
        \/ CallAck(p, FewKeys)
        \/ Step(p)
        \/ Abort(p)

Spec == Init /\ [][Next]_vars

\* One caller, so one call at a time and no lock wait to time out on; a wide
\* choice of updateItems inputs.
SerialNext ==
    \E p \in {"p1"} :
        \/ CallImport(p, FewImports)
        \/ CallUpdateItems(p, Keyed(ManyKeys,
              UpdatePayloads(1..MaxVersion, {NULL}, ManyBatches)))
        \/ CallUpdateItemsWithMerge(p, Keyed(ManyKeys,
              UpdatePayloads({1}, {Some("t1")}, FewBatches)))
        \/ CallRevise(p, ManyKeys)
        \/ CallExport(p, ManyKeys)
        \/ CallAck(p, ManyKeys)
        \/ CallGet(p, ManyKeys)
        \/ GetDocument(p)
        \/ Step(p)

SerialSpec == Init /\ [][SerialNext]_vars

\* One caller, a wide choice of import payloads, and enough of the other
\* calls to take the document through its statuses between imports.
ImportNext ==
    \E p \in {"p1"} :
        \/ CallImport(p, ManyImports)
        \/ CallUpdateItems(p, Keyed(FewKeys, UpdatePayloads(1..MaxVersion, {NULL}, FewBatches)))
        \/ CallUpdateItemsWithMerge(p, Keyed(FewKeys, UpdatePayloads({1}, {Some("t1")}, FewBatches)))
        \/ CallRevise(p, FewKeys)
        \/ CallExport(p, FewKeys)
        \/ CallAck(p, FewKeys)
        \/ Step(p)

ImportSpec == Init /\ [][ImportNext]_vars

\* One caller, a wide choice of updateItemsWithMerge inputs: by sku and by
\* barcode, each field alone and together, unknown references, two devices
\* and no device, a version behind the document's.
MergeNext ==
    \E p \in {"p1"} :
        \/ CallImport(p, FewImports)
        \/ CallUpdateItems(p, Keyed(FewKeys, UpdatePayloads(1..MaxVersion, {NULL}, FewBatches)))
        \/ CallUpdateItemsWithMerge(p, Keyed(ManyKeys,
              UpdatePayloads({1}, {Some("t1")}, MergeBatches \cup StampedBatches)
              \cup UpdatePayloads({1, MaxVersion}, {NULL, Some("t2")}, FewBatches)))
        \/ CallRevise(p, FewKeys)
        \/ CallExport(p, FewKeys)
        \/ CallAck(p, FewKeys)
        \/ Step(p)

MergeSpec == Init /\ [][MergeNext]_vars

\* Two devices merging into one document in parallel, and exports.
RaceNext ==
    \E p \in Procs :
        \/ CallImport(p, FewImports)
        \/ CallUpdateItemsWithMerge(p, Keyed(FewKeys,
              UpdatePayloads({1}, {Some("t1"), Some("t2")}, RaceBatches)))
        \/ CallExport(p, FewKeys)
        \/ ImportFrom1C(p)
        \/ UpdateItemsWithMerge(p)
        \/ ExportFor1C(p)
        \/ Return(p)
        \/ Abort(p)

RaceSpec == Init /\ [][RaceNext]_vars

\* One caller whose reads are watched, and one caller whose transactions
\* commit meanwhile.
ReadNext ==
    \/ \E p \in {"p1"} :
          \/ CallRead(p, {"exportFor1C", "getDocument"}, FewKeys)
          \/ ExportFor1C(p)
          \/ GetDocument(p)
          \/ Return(p)
    \/ \E p \in {"p2"} :
          \/ CallImport(p, ReadImports)
          \/ CallUpdateItems(p, Keyed(FewKeys, UpdatePayloads({1}, {NULL}, FewBatches)))
          \/ CallUpdateItemsWithMerge(p, Keyed(FewKeys,
                UpdatePayloads({1}, {Some("t1")}, FewBatches)))
          \/ CallRevise(p, FewKeys)
          \/ ImportFrom1C(p)
          \/ UpdateItems(p)
          \/ UpdateItemsWithMerge(p)
          \/ Revise(p)
          \/ Return(p)

ReadSpec == Init /\ [][ReadNext]_vars

\* One caller that sends updateItems batches with every kind of item
\* reference.
RefNext ==
    \E p \in {"p1"} :
        \/ CallImport(p, FewImports)
        \/ CallUpdateItems(p, Keyed(FewKeys,
              UpdatePayloads(1..MaxVersion, {NULL}, RefBatches)))
        \/ ImportFrom1C(p)
        \/ UpdateItems(p)
        \/ Return(p)

RefSpec == Init /\ [][RefNext]_vars

\* The caller that closes an inventory: it asks for the revision of the
\* imported document, asks again whenever the call fails, then asks for the
\* acknowledgement, again until it succeeds, and stops there.
RequestRevise(p) ==
    /\ docs["d1"].exists
    /\ Call(p, "revise", "d1", NoPayload)

\* The caller takes its response and sends the next call at once.
CallAgain(p, op) ==
    /\ tx' = [tx EXCEPT ![p] = Begun(op, "d1", NoPayload, NULL)]
    /\ UNCHANGED <<warehouses, docs, items, barcodes, changes>>

RetryRevise(p) ==
    /\ tx[p].pc = "done" /\ tx[p].op = "revise" /\ tx[p].code # "OK"
    /\ CallAgain(p, "revise")

RequestAck(p) ==
    /\ tx[p].pc = "done" /\ tx[p].op = "revise" /\ tx[p].code = "OK"
    /\ CallAgain(p, "ack")

RetryAck(p) ==
    /\ tx[p].pc = "done" /\ tx[p].op = "ack" /\ tx[p].code # "OK"
    /\ CallAgain(p, "ack")

\* What the closing caller does when it is its turn: at most one of the four
\* is enabled in a state.
Requests(p) == RequestRevise(p) \/ RetryRevise(p) \/ RequestAck(p) \/ RetryAck(p)

\* The closing caller p1, whose transactions can time out, next to a caller
\* p2 that imports the document, imports it again and sends v1 and v2
\* updates.  The v1 updates give version 1, which leaves the revision its
\* own version below MaxVersion.
LiveNext ==
    \/ \E p \in {"p1"} :
          \/ RequestRevise(p)
          \/ RetryRevise(p)
          \/ RequestAck(p)
          \/ RetryAck(p)
          \/ Revise(p)
          \/ Ack(p)
          \/ Abort(p)
    \/ \E p \in {"p2"} :
          \/ CallImport(p, FewImports)
          \/ CallUpdateItems(p, Keyed(FewKeys, UpdatePayloads({1}, {NULL}, FewBatches)))
          \/ CallUpdateItemsWithMerge(p, Keyed(FewKeys,
                UpdatePayloads({1}, {Some("t1")}, FewBatches)))
          \/ ImportFrom1C(p)
          \/ UpdateItems(p)
          \/ UpdateItemsWithMerge(p)
          \/ Return(p)

\* The closing caller keeps going (weak fairness of its next request), and of
\* the attempts it repeats without end, one gets its locks before the
\* transaction timeout and runs to its end (strong fairness of the
\* handler step against Abort).  Nothing is assumed of the other caller.
LiveSpec ==
    /\ Init /\ [][LiveNext]_vars
    /\ WF_vars(Requests("p1"))
    /\ SF_vars(Revise("p1")) /\ SF_vars(Ack("p1"))

\* Key lookups over every small table of documents.
ResolveInit ==
    /\ warehouses = [w \in WhCodes |-> IF w = "w1" THEN Some("main") ELSE NULL]
    /\ docs \in ResolveTables
    /\ items = [d \in ResolveIds |-> [s \in Skus |-> NoItem]]
    /\ barcodes = [d \in ResolveIds |-> [b \in Codes |-> NoBarcode]]
    /\ changes = <<>>
    /\ tx = [p \in Procs |-> Idle]

ResolveNext ==
    \E p \in {"p1"} : CallGet(p, ResolveKeys) \/ GetDocument(p) \/ Return(p)

ResolveSpec == ResolveInit /\ [][ResolveNext]_vars

\* ---------------------------------------------------------------------
\* Properties.
\*
\* A step in which caller p's call ends (commits, fails or is rolled back):
\* the unprimed tx[p] holds what the call was given and what it read, the
\* primed tx[p] the response, the primed store what it committed.
Ends(p, op) == Running(p, op) /\ tx'[p].pc = "done"

Answered(p, op) == tx[p].pc = "done" /\ tx[p].op = op

StoreUnchanged == UNCHANGED <<warehouses, docs, items, barcodes, changes>>

\* C1: two updateItems calls on the same document that overlap, both given
\* the version the document has when they start: exactly one answers OK,
\* the other CONFLICT, and the version ends one above the one given.
C1_OneOfTwoWins ==
    \A p \in Procs : \A q \in Procs \ {p} :
        ( /\ Answered(p, "updateItems") /\ Answered(q, "updateItems")
          /\ tx[p].key = tx[q].key
          /\ tx[p].seen = Some(tx[p].payload.version)
          /\ tx[q].seen = Some(tx[q].payload.version)
          /\ tx[p].payload.version = tx[q].payload.version
          /\ tx[p].code # "INTERNAL" /\ tx[q].code # "INTERNAL" )
        => /\ {tx[p].code, tx[q].code} = {"OK", "CONFLICT"}
           /\ docs[tx[p].key].version = tx[p].payload.version + 1

\* C2: whatever calls run and however they overlap, a document stays in
\* the store and its version never decreases.
C2_VersionNeverDecreases ==
    [][\A d \in DocIds :
         docs[d].exists => docs'[d].exists /\ docs'[d].version >= docs[d].version]_vars

\* A repeated import has committed on a document whose version had moved on.
C2_Witness ==
    \E p \in Procs :
        /\ Answered(p, "importFrom1C") /\ tx[p].code = "OK"
        /\ tx[p].seen # NULL
        /\ docs["d1"].version > 1

\* C3: every committed mutating call (an updateItems that answers OK, an
\* updateItemsWithMerge that records at least one change, a revise that
\* answers OK, an ack that changes the status) leaves the version of its
\* document strictly greater than before.
C3_MutationRaisesVersion ==
    [][\A p \in Procs : \A d \in DocIds :
         ( /\ tx[p].pc = "running" /\ tx'[p].pc = "done" /\ tx'[p].code = "OK"
           /\ docs[d].exists
           /\ resolveDocumentId(Db, tx[p].key) = Some(d)
           /\ \/ tx[p].op \in {"updateItems", "revise"}
              \/ tx[p].op = "updateItemsWithMerge" /\ Len(changes') > Len(changes)
              \/ tx[p].op = "ack" /\ docs'[d].status # docs[d].status )
         => docs'[d].version > docs[d].version]_vars

\* C4: the status of a document only moves IMPORTED -> REVISED and
\* REVISED -> EXPORTED; it never skips REVISED, never returns to an earlier
\* status, and EXPORTED is final.
C4_StatusOnlyForward ==
    [][\A d \in DocIds :
         docs[d].exists =>
            \/ docs'[d].status = docs[d].status
            \/ docs[d].status = "IMPORTED" /\ docs'[d].status = "REVISED"
            \/ docs[d].status = "REVISED" /\ docs'[d].status = "EXPORTED"]_vars

\* The document an updateItems call with this key addresses, read straight
\* from the store.
Addressed(p) == tx[p].key \in DocIds /\ docs[tx[p].key].exists

Refers(u) == u.sku # NULL \/ u.barcode # NULL

\* The item reference of u names an item of document d in the store.
Resolves(d, u) ==
    IF u.sku # NULL
    THEN Val(u.sku) \in Skus /\ items[d][Val(u.sku)].exists
    ELSE /\ u.barcode # NULL
         /\ Val(u.barcode) \in Codes
         /\ barcodes[d][Val(u.barcode)].exists

\* The sku of the item u addresses in document d, when Resolves(d, u).
Target(d, u) ==
    IF u.sku # NULL THEN Val(u.sku) ELSE barcodes[d][Val(u.barcode)].sku

\* C5: an updateItems call whose version differs from the stored version
\* answers CONFLICT and changes nothing in the store: no item field, no
\* change row, no version; so a call that repeats a version already used up
\* is not applied a second time.
C5_StaleVersionRejected ==
    [][\A p \in Procs :
         ( /\ Ends(p, "updateItems")
           /\ Addressed(p)
           /\ docs[tx[p].key].version # tx[p].payload.version )
         => tx'[p].code = "CONFLICT" /\ StoreUnchanged]_vars

\* A call has repeated, with a non-empty batch, the version its predecessor
\* used up, and got CONFLICT.
C5_Witness ==
    \E p \in Procs :
        /\ Answered(p, "updateItems") /\ tx[p].code = "CONFLICT"
        /\ Addressed(p)
        /\ tx[p].payload.items # <<>>
        /\ docs[tx[p].key].version = tx[p].payload.version + 1
        /\ changes # <<>>

\* C6: an updateItems call with the right version in which some item
\* reference (sku or barcode) does not resolve answers NOT_FOUND, and none
\* of the item updates, change rows or version increment of the batch is
\* committed, whatever preceded the unresolved reference in the batch.
C6_BatchAllOrNothing ==
    [][\A p \in Procs :
         ( /\ Ends(p, "updateItems")
           /\ Addressed(p)
           /\ docs[tx[p].key].version = tx[p].payload.version
           /\ \A i \in DOMAIN tx[p].payload.items : Refers(tx[p].payload.items[i])
           /\ \E i \in DOMAIN tx[p].payload.items :
                  ~Resolves(tx[p].key, tx[p].payload.items[i]) )
         => tx'[p].code = "NOT_FOUND" /\ StoreUnchanged]_vars

\* A batch of two, the first resolved and the second not, got NOT_FOUND.
C6_Witness ==
    \E p \in Procs :
        /\ Answered(p, "updateItems") /\ tx[p].code = "NOT_FOUND"
        /\ Addressed(p)
        /\ docs[tx[p].key].version = tx[p].payload.version
        /\ Len(tx[p].payload.items) = 2
        /\ Resolves(tx[p].key, tx[p].payload.items[1])
        /\ ~Resolves(tx[p].key, tx[p].payload.items[2])

\* C7: an updateItems call that answers OK raises the version of its
\* document by exactly one and returns the new version, for a batch of any
\* length.
C7_VersionPlusOne ==
    [][\A p \in Procs :
         (Ends(p, "updateItems") /\ tx'[p].code = "OK")
         => /\ docs'[tx[p].key].version = docs[tx[p].key].version + 1
            /\ tx'[p].out.version = Some(docs[tx[p].key].version + 1)]_vars

\* A batch that updates the same item twice has been applied.
C7_Witness ==
    \E p \in Procs :
        /\ Answered(p, "updateItems") /\ tx[p].code = "OK"
        /\ Len(tx[p].payload.items) = 2
        /\ tx[p].payload.items[1].sku = Some("A")
        /\ tx[p].payload.items[2].sku = Some("A")
        /\ tx[p].out.version = Some(docs[tx[p].key].version)

\* C8: after an updateItems call that answers OK, each field present in an
\* update (countedQty, correctedQty, note) holds exactly the submitted value
\* in the addressed item (the last submitted one, when the batch sets the
\* field of the item more than once).
C8_FieldsOverwritten ==
    [][\A p \in Procs :
         (Ends(p, "updateItems") /\ tx'[p].code = "OK")
         => LET d     == tx[p].key
                batch == tx[p].payload.items
            IN  \A i \in DOMAIN batch : \A f \in {"countedQty", "correctedQty", "note"} :
                    ( /\ batch[i][f] # NULL
                      /\ \A j \in DOMAIN batch :
                            (j > i /\ Target(d, batch[j]) = Target(d, batch[i]))
                            => batch[j][f] = NULL )
                    => items'[d][Target(d, batch[i])][f] = batch[i][f]]_vars

\* C9: a revise call on a document whose status is not IMPORTED answers
\* UNPROCESSABLE_ENTITY and leaves status, version and every deltaQty as
\* they were.
C9_ReviseOnlyOnce ==
    [][\A p \in Procs : \A d \in DocIds :
         ( /\ Ends(p, "revise")
           /\ resolveDocumentId(Db, tx[p].key) = Some(d)
           /\ docs[d].status # "IMPORTED" )
         => /\ tx'[p].code = "UNPROCESSABLE_ENTITY"
            /\ docs'[d].status = docs[d].status
            /\ docs'[d].version = docs[d].version
            /\ \A k \in Skus : items[d][k].exists =>
                   items'[d][k].deltaQty = items[d][k].deltaQty]_vars

\* What an item has as its revised quantity: correctedQty, else countedQty,
\* else nothing counted.
Entered(item) ==
    IF item.correctedQty # NULL THEN Val(item.correctedQty)
    ELSE IF item.countedQty # NULL THEN Val(item.countedQty)
    ELSE 0

\* C10: right after a revise call that answers OK, the document is REVISED
\* and every item has deltaQty = (correctedQty, else countedQty, else 0)
\* minus qtyFrom1C, items nobody counted included.
C10_ReviseDelta ==
    [][\A p \in Procs : \A d \in DocIds :
         ( /\ Ends(p, "revise") /\ tx'[p].code = "OK"
           /\ resolveDocumentId(Db, tx[p].key) = Some(d) )
         => /\ docs'[d].status = "REVISED"
            /\ \A k \in Skus : items'[d][k].exists =>
                   items'[d][k].deltaQty =
                       Some(Entered(items'[d][k]) - items'[d][k].qtyFrom1C)]_vars

\* A revise has been applied to a document with an item that has a corrected
\* quantity, and an item nobody counted.
C10_Witness ==
    \E p \in Procs :
        /\ Answered(p, "revise") /\ tx[p].code = "OK"
        /\ docs["d1"].status = "REVISED"
        /\ items["d1"]["A"].correctedQty # NULL
        /\ items["d1"]["A"].countedQty # NULL
        /\ items["d1"]["A"].correctedQty # items["d1"]["A"].countedQty
        /\ items["d1"]["B"].exists
        /\ items["d1"]["B"].countedQty = NULL /\ items["d1"]["B"].correctedQty = NULL
        /\ items["d1"]["B"].deltaQty = Some(0 - items["d1"]["B"].qtyFrom1C)

\* C11: an ack on a document that is REVISED or EXPORTED answers OK and
\* leaves it EXPORTED with its version and its items as they were; on a
\* document already EXPORTED (a second ack) it answers OK and changes
\* nothing, so two acks leave what one ack leaves.
C11_AckIdempotent ==
    [][\A p \in Procs : \A d \in DocIds :
         ( /\ Ends(p, "ack")
           /\ resolveDocumentId(Db, tx[p].key) = Some(d)
           /\ docs[d].status \in {"REVISED", "EXPORTED"} )
         => /\ tx'[p].code = "OK"
            /\ docs'[d] = [docs[d] EXCEPT !.status = "EXPORTED"]
            /\ UNCHANGED <<warehouses, items, barcodes, changes>>
            /\ docs[d].status = "EXPORTED" => StoreUnchanged]_vars

\* An ack of a document that was already EXPORTED has answered OK.
C11_Witness ==
    \E p \in Procs :
        /\ Answered(p, "ack") /\ tx[p].code = "OK"
        /\ tx[p].was = Some("EXPORTED")
        /\ docs["d1"].status = "EXPORTED"

\* C12: an ack on a document that is IMPORTED answers UNPROCESSABLE_ENTITY
\* and leaves status and version (and the rest of the store) as they were;
\* an ack with a key that resolves to no document answers NOT_FOUND.
C12_AckRefused ==
    [][\A p \in Procs :
         Ends(p, "ack") =>
            LET r == resolveDocumentId(Db, tx[p].key) IN
            /\ r = NULL => tx'[p].code = "NOT_FOUND" /\ StoreUnchanged
            /\ (r # NULL /\ docs[Val(r)].status = "IMPORTED")
               => /\ tx'[p].code = "UNPROCESSABLE_ENTITY"
                  /\ docs'[Val(r)].status = "IMPORTED"
                  /\ docs'[Val(r)].version = docs[Val(r)].version
                  /\ StoreUnchanged]_vars

\* An ack of an IMPORTED document, addressed by its externalId, was refused.
C12_Witness ==
    \E p \in Procs :
        /\ Answered(p, "ack") /\ tx[p].code = "UNPROCESSABLE_ENTITY"
        /\ tx[p].key = "e1"
        /\ tx[p].was = Some("IMPORTED")
        /\ docs["d1"].status = "IMPORTED"

\* The document with this externalId in the store, as a set of ids.
Imported(externalId) ==
    {d \in DocIds : docs[d].exists /\ docs[d].externalId = externalId}

\* C13: an import with an externalId that exists leaves status and version
\* of the document, and countedQty, correctedQty and deltaQty of every item
\* it has, as they were, whatever the status and the payload; no item and no
\* change row is lost.
C13_ReimportKeepsRecount ==
    [][\A p \in Procs : \A d \in DocIds :
         (Ends(p, "importFrom1C") /\ d \in Imported(tx[p].payload.externalId))
         => /\ docs'[d].exists
            /\ docs'[d].status = docs[d].status
            /\ docs'[d].version = docs[d].version
            /\ changes' = changes
            /\ \A k \in Skus : items[d][k].exists =>
                  /\ items'[d][k].exists
                  /\ items'[d][k].countedQty = items[d][k].countedQty
                  /\ items'[d][k].correctedQty = items[d][k].correctedQty
                  /\ items'[d][k].deltaQty = items[d][k].deltaQty
                  /\ items'[d][k].note = items[d][k].note]_vars

\* An EXPORTED document with a counted and revised item A has been imported
\* again with another quantity for A.
C13_Witness ==
    \E p \in Procs :
        /\ Answered(p, "importFrom1C") /\ tx[p].code = "OK"
        /\ tx[p].was = Some("EXPORTED")
        /\ docs["d1"].status = "EXPORTED"
        /\ items["d1"]["A"].exists
        /\ items["d1"]["A"].countedQty # NULL
        /\ items["d1"]["A"].deltaQty # NULL
        /\ items["d1"]["A"].qtyFrom1C = MaxQty
        /\ Val(items["d1"]["A"].deltaQty) #
              Val(items["d1"]["A"].countedQty) - items["d1"]["A"].qtyFrom1C

\* The store after one more importFrom1C(payload) on the store as it is.
ImportedAgain(payload) == Local(Db, importFrom1C(Snapshot, payload).writes)

\* C14: importing a payload twice leaves what importing it once leaves.
\* With one call at a time the store stays as an import left it while its
\* caller holds the answer: importing the same payload again then changes
\* no document, item or barcode.
C14_ImportIdempotent ==
    \A p \in Procs :
        (Answered(p, "importFrom1C") /\ tx[p].code = "OK")
        => ImportedAgain(tx[p].payload) = Db

\* The barcodes that table bcs attaches to item sku of document d.
BarcodesOf(bcs, d, sku) ==
    {b \in Codes : bcs[d][b].exists /\ bcs[d][b].sku = sku}

\* The elements of a list.
Listed(list) == {list[i] : i \in DOMAIN list}

\* C15: after an import that answers OK, every item of the payload that
\* came with at least one barcode has exactly one primary barcode, the
\* first of its submitted list; also when a barcode is listed under two
\* items or moves from one item to another between imports.
C15_OnePrimaryBarcode ==
    [][\A p \in Procs : \A d \in DocIds :
         ( /\ Ends(p, "importFrom1C") /\ tx'[p].code = "OK"
           /\ docs'[d].exists /\ docs'[d].externalId = tx[p].payload.externalId )
         => \A i \in DOMAIN tx[p].payload.items :
               LET item == tx[p].payload.items[i] IN
               Len(item.barcodes) > 0 =>
                  {b \in BarcodesOf(barcodes', d, item.sku) : barcodes'[d][b].isPrimary}
                     = {item.barcodes[1]}]_vars

\* C16: after a re-import that answers OK, the barcodes of every item of
\* the payload are exactly the item's submitted list: what it had and is
\* not listed is gone, what is listed is there and attached to the item.
C16_BarcodesReplaced ==
    [][\A p \in Procs : \A d \in DocIds :
         ( /\ Ends(p, "importFrom1C") /\ tx'[p].code = "OK"
           /\ d \in Imported(tx[p].payload.externalId) )
         => \A i \in DOMAIN tx[p].payload.items :
               LET item == tx[p].payload.items[i] IN
               BarcodesOf(barcodes', d, item.sku) = Listed(item.barcodes)]_vars

\* C17: the import of an externalId the store does not have creates one
\* document, IMPORTED and at version 1, whose items are the items of the
\* payload, each with the submitted qtyFrom1C and with countedQty,
\* correctedQty and deltaQty null.
C17_FirstImport ==
    [][\A p \in Procs :
         ( /\ Ends(p, "importFrom1C") /\ tx'[p].code = "OK"
           /\ Imported(tx[p].payload.externalId) = {} )
         => LET created == {d \in DocIds : /\ docs'[d].exists
                                           /\ docs'[d].externalId = tx[p].payload.externalId}
                list    == tx[p].payload.items
            IN  /\ Cardinality(created) = 1
                /\ \A d \in created :
                     /\ ~docs[d].exists
                     /\ docs'[d].status = "IMPORTED"
                     /\ docs'[d].version = 1
                     /\ {k \in Skus : items'[d][k].exists} = {list[i].sku : i \in DOMAIN list}
                     /\ \A i \in DOMAIN list :
                          /\ Some(items'[d][list[i].sku].qtyFrom1C) = Decimal(list[i].qtyFrom1C)
                          /\ items'[d][list[i].sku].countedQty = NULL
                          /\ items'[d][list[i].sku].correctedQty = NULL
                          /\ items'[d][list[i].sku].deltaQty = NULL]_vars

\* A first import of a payload with item B alone has created the document.
C17_Witness ==
    \E p \in Procs :
        /\ Answered(p, "importFrom1C") /\ tx[p].code = "OK"
        /\ tx[p].seen = NULL
        /\ Len(tx[p].payload.items) = 1
        /\ docs["d1"].exists /\ docs["d1"].version = 1 /\ docs["d1"].status = "IMPORTED"
        /\ items["d1"]["B"].exists /\ ~items["d1"]["A"].exists

\* What the imports that can succeed when calls overlap write, each in
\* full, on an empty store.
WholeImports ==
    {Local(EmptyDb, importFrom1C(EmptyDb, payload).writes) : payload \in FewImports}

\* Tables db show every document with the items and barcodes of a whole
\* import: each imported column of each item, and the barcode table, are as
\* that import leaves them.
ShowsWholeImports(db) ==
    \A d \in DocIds :
        db.docs[d].exists =>
           \E w \in WholeImports :
              /\ db.barcodes[d] = w.barcodes[d]
              /\ \A k \in Skus :
                    /\ db.items[d][k].exists = w.items[d][k].exists
                    /\ db.items[d][k].exists =>
                          /\ db.items[d][k].name = w.items[d][k].name
                          /\ db.items[d][k].unit = w.items[d][k].unit
                          /\ db.items[d][k].qtyFrom1C = w.items[d][k].qtyFrom1C

\* C18: an import that does not answer OK (it throws part-way, meets a
\* unique key, or runs out of time) commits nothing; and the rows any call
\* reads while imports run, like the committed store, never show a document
\* with part of an import: here every import that can succeed carries the
\* same items and barcodes, and those are what every view shows.
C18_ImportAllOrNothing ==
    [][/\ \A p \in Procs :
            (Ends(p, "importFrom1C") /\ tx'[p].code # "OK") => StoreUnchanged
       /\ ShowsWholeImports(Db')
       /\ \A q \in Procs :
            tx'[q].pc = "running" => ShowsWholeImports(tx'[q].snap)]_vars

\* An import has thrown at its second item, the first being written with
\* another quantity and another barcode than the document has, while the
\* other caller is reading the document.
C18_Witness ==
    \E p \in Procs : \E q \in Procs \ {p} :
        /\ Answered(p, "importFrom1C") /\ tx[p].code = "INTERNAL"
        /\ tx[p].payload \in BadImports
        /\ tx[p].seen # NULL
        /\ tx[q].pc = "running" /\ tx[q].op \in {"exportFor1C", "updateItems"}
        /\ tx[q].snap.docs["d1"].exists
        /\ docs["d1"].exists

\* C19: an updateItemsWithMerge call changes no item row (countedQty,
\* correctedQty, note and deltaQty stay) and nothing else in the store but
\* the change log, to which it only appends rows of its document tagged
\* with the deviceId it was given ("unknown" when it was given none).
C19_MergeOnlyAppends ==
    [][\A p \in Procs :
         Ends(p, "updateItemsWithMerge")
         => /\ UNCHANGED <<warehouses, docs, items, barcodes>>
            /\ Len(changes') >= Len(changes)
            /\ SubSeq(changes', 1, Len(changes)) = changes
            /\ \A i \in (Len(changes) + 1)..Len(changes') :
                  /\ changes'[i].deviceId =
                        (IF tx[p].payload.deviceId = NULL THEN "unknown"
                         ELSE Val(tx[p].payload.deviceId))
                  /\ Some(changes'[i].documentId) = resolveDocumentId(Db, tx[p].key)]_vars

\* A merge from device t2 has recorded a count for item A, whose row still
\* has no count.
C19_Witness ==
    \E p \in Procs :
        /\ Answered(p, "updateItemsWithMerge") /\ tx[p].code = "OK"
        /\ tx[p].out.applied = Some(1)
        /\ changes # <<>>
        /\ changes[Len(changes)].deviceId = "t2"
        /\ changes[Len(changes)].countedQty = Some(1)
        /\ items["d1"]["A"].countedQty = NULL

\* C20: an updateItemsWithMerge call whose version differs from the stored
\* version of its document answers CONFLICT, appends no change row and
\* changes nothing else.
C20_MergeStaleVersionRejected ==
    [][\A p \in Procs : \A d \in DocIds :
         ( /\ Ends(p, "updateItemsWithMerge")
           /\ resolveDocumentId(Db, tx[p].key) = Some(d)
           /\ docs[d].version # tx[p].payload.version )
         => tx'[p].code = "CONFLICT" /\ StoreUnchanged]_vars

\* The updates of a batch that updateItemsWithMerge has to record for
\* document d: the reference resolves and a field is carried.
Accepted(d, batch) ==
    SelectSeq(batch, LAMBDA u :
        /\ Resolves(d, u)
        /\ u.countedQty # NULL \/ u.correctedQty # NULL \/ u.note # NULL)

\* C21: an updateItemsWithMerge call on an existing document answers OK
\* even when some item references of its batch do not resolve; those
\* updates are skipped and the others recorded.  The appliedChanges it
\* returns is the number of updates that resolved and carried at least one
\* of countedQty, correctedQty, note, and exactly that many rows are
\* appended to the change log, one per such update, in batch order.
C21_AppliedChangesCounted ==
    [][\A p \in Procs : \A d \in DocIds :
         ( /\ Ends(p, "updateItemsWithMerge")
           /\ resolveDocumentId(Db, tx[p].key) = Some(d) )
         => LET acc == Accepted(d, tx[p].payload.items)
                n   == Len(changes)
            IN  /\ tx'[p].code = "OK"
                /\ tx'[p].out.applied = Some(Len(acc))
                /\ Len(changes') = n + Len(acc)
                /\ \A k \in 1..Len(acc) :
                      /\ changes'[n + k].itemId = Target(d, acc[k])
                      /\ changes'[n + k].countedQty = acc[k].countedQty
                      /\ changes'[n + k].correctedQty = acc[k].correctedQty
                      /\ changes'[n + k].note = acc[k].note]_vars

\* A batch whose first reference is unknown and whose second resolves has
\* been answered with one applied change, recorded for item A.
C21_Witness ==
    \E p \in Procs :
        /\ Answered(p, "updateItemsWithMerge") /\ tx[p].code = "OK"
        /\ Len(tx[p].payload.items) = 2
        /\ tx[p].payload.items[1].sku = Some("Z")
        /\ tx[p].out.applied = Some(1)
        /\ changes # <<>>
        /\ changes[Len(changes)].itemId = "A"

\* The conflict descriptors of an updateItemsWithMerge result.
Conflicts(out) == IF "conflicts" \in DOMAIN out THEN out.conflicts ELSE <<>>

\* The update carries a lastKnownModified that is older than the updatedAt
\* of the item it addresses in document d: it was taken at the first import
\* and the item row has been written since (a count, a correction or a
\* delta has been stored in it).
Outdated(d, u) ==
    /\ u.lastKnownModified = Some(0)
    /\ Resolves(d, u)
    /\ LET item == items[d][Target(d, u)]
       IN  item.countedQty # NULL \/ item.correctedQty # NULL \/ item.deltaQty # NULL

\* C22: an updateItemsWithMerge call answers with one conflict descriptor
\* for each quantity field (countedQty, correctedQty) carried by an update
\* whose lastKnownModified is older than the updatedAt of its item, and
\* still appends the change row of that update; when no update carries a
\* lastKnownModified, it answers with no conflict descriptor.
C22_ConflictsReported ==
    [][\A p \in Procs : \A d \in DocIds :
         ( /\ Ends(p, "updateItemsWithMerge")
           /\ resolveDocumentId(Db, tx[p].key) = Some(d)
           /\ \A i \in DOMAIN tx[p].payload.items :
                 \/ tx[p].payload.items[i].lastKnownModified = NULL
                 \/ Outdated(d, tx[p].payload.items[i]) )
         => LET batch == tx[p].payload.items
                ofCounted   == SelectSeq(batch, LAMBDA u :
                                  Outdated(d, u) /\ u.countedQty # NULL)
                ofCorrected == SelectSeq(batch, LAMBDA u :
                                  Outdated(d, u) /\ u.correctedQty # NULL)
            IN  /\ Len(Conflicts(tx'[p].out)) = Len(ofCounted) + Len(ofCorrected)
                /\ Len(changes') = Len(changes) + Len(Accepted(d, batch))]_vars

\* C23: the change log is append-only.  Whatever call runs (import, v1
\* update, merge, revise, export, ack), committed, failed or timed out, every
\* row already in the log stays at its place with the same documentId,
\* itemId, deviceId, countedQty, correctedQty, note and createdAt; rows are
\* only added at the end.
C23_LogAppendOnly ==
    [][/\ Len(changes') >= Len(changes)
       /\ \A i \in 1..Len(changes) : changes'[i] = changes[i]]_vars

\* The log holds two rows of the same device for the same item, and the
\* document has since been revised, acknowledged and imported again.
C23_Witness ==
    /\ Len(changes) >= 2
    /\ changes[1].deviceId = changes[2].deviceId
    /\ changes[1].itemId = changes[2].itemId
    /\ docs["d1"].status = "EXPORTED"
    /\ \E p \in Procs :
          Answered(p, "importFrom1C") /\ tx[p].code = "OK" /\ tx[p].was = Some("EXPORTED")

\* The rows of the log for item sku of document d that device dev wrote.
RowsOf(d, sku, dev) ==
    {k \in 1..Len(changes) : /\ changes[k].documentId = d
                             /\ changes[k].itemId = sku
                             /\ changes[k].deviceId = dev}

\* The devices that have a row for item sku of document d.
DevicesOf(d, sku) ==
    {dev \in Devices \cup {"unknown"} : RowsOf(d, sku, dev) # {}}

\* The quantity a row contributes to an export: 0 when the row has none.
Qty(x) == IF x = NULL THEN 0 ELSE Val(x)

RECURSIVE Total(_, _, _, _)
\* The sum over the devices in S of field f of the row that pick gives.
Total(pick, f, S, log) ==
    IF S = {} THEN 0
    ELSE LET dev == CHOOSE x \in S : TRUE
         IN  Qty(log[pick[dev]][f]) + Total(pick, f, S \ {dev}, log)

\* C24: when devices merge into the same item in parallel, no update is
\* lost.  (a) An updateItemsWithMerge call that answers OK appends one row
\* of its own device for each update it accepted, with the submitted values,
\* to the log as it is when the call ends, whatever other devices appended
\* while it ran, and keeps every row already there.  (b) An export then
\* reports, for each item with rows, the sum over all devices that have a
\* row of the counted quantity of that device's last row.
C24_NoMergeLost ==
    [][\A p \in Procs : \A d \in DocIds :
         /\ ( /\ Ends(p, "updateItemsWithMerge") /\ tx'[p].code = "OK"
              /\ resolveDocumentId(Db, tx[p].key) = Some(d) )
            => LET acc == Accepted(d, tx[p].payload.items)
                   n   == Len(changes)
               IN  /\ SubSeq(changes', 1, n) = changes
                   /\ Len(changes') = n + Len(acc)
                   /\ \A k \in 1..Len(acc) :
                         /\ Some(changes'[n + k].deviceId) = tx[p].payload.deviceId
                         /\ changes'[n + k].itemId = Target(d, acc[k])
                         /\ changes'[n + k].countedQty = acc[k].countedQty
                         /\ changes'[n + k].correctedQty = acc[k].correctedQty
         /\ ( /\ Ends(p, "exportFor1C") /\ tx'[p].code = "OK"
              /\ resolveDocumentId(Db, tx[p].key) = Some(d) )
            => \A i \in DOMAIN tx'[p].out.items :
                  LET e    == tx'[p].out.items[i]
                      devs == DevicesOf(d, e.sku)
                      last == [dev \in devs |->
                                 CHOOSE k \in RowsOf(d, e.sku, dev) :
                                    \A j \in RowsOf(d, e.sku, dev) : j <= k]
                  IN  devs # {} =>
                         /\ e.countedQty = Total(last, "countedQty", devs, changes)
                         /\ e.correctedQty = Total(last, "correctedQty", devs, changes)]_vars

\* Device t2 began its merge for item A, device t1 committed a count of 1
\* for A while it ran, t2 committed its count of MaxQty, and an export then
\* reported 1 + MaxQty for A.
C24_Witness ==
    \E p \in Procs : \E q \in Procs \ {p} :
        /\ Answered(q, "updateItemsWithMerge") /\ tx[q].code = "OK"
        /\ tx[q].payload.deviceId = Some("t2")
        /\ tx[q].since = 0
        /\ Len(changes) = 2
        /\ changes[1].deviceId = "t1" /\ changes[1].countedQty = Some(1)
        /\ changes[2].deviceId = "t2" /\ changes[2].countedQty = Some(MaxQty)
        /\ changes[1].itemId = "A" /\ changes[2].itemId = "A"
        /\ Answered(p, "exportFor1C") /\ tx[p].code = "OK"
        /\ \E i \in DOMAIN tx[p].out.items :
              /\ tx[p].out.items[i].sku = "A"
              /\ tx[p].out.items[i].countedQty = 1 + MaxQty

\* The rows of device dev for item sku of document d that no other row of
\* the device for the item is later than.
LatestOf(d, sku, dev) ==
    {k \in RowsOf(d, sku, dev) :
        \A j \in RowsOf(d, sku, dev) : changes[j].createdAt <= changes[k].createdAt}

C25_TieWitness ==
    \E p \in Procs :
        /\ Answered(p, "exportFor1C") /\ tx[p].code = "OK"
        /\ Len(changes) = 2
        /\ changes[1].itemId = "A" /\ changes[2].itemId = "A"
        /\ changes[1].deviceId = changes[2].deviceId
        /\ changes[1].createdAt = changes[2].createdAt
        /\ changes[1].countedQty = Some(1) /\ changes[2].countedQty = Some(MaxQty)
        /\ \E i \in DOMAIN tx[p].out.items :
              /\ tx[p].out.items[i].sku = "A"
              /\ tx[p].out.items[i].countedQty = 1

\* C26: for a document changed only through import, updateItems and revise
\* (no updateItemsWithMerge call has written a row for it), exportFor1C
\* reports for each item its correctedQty, or its countedQty when it has no
\* correctedQty, and as deltaQty the delta that revise stored in the item.
C26_ExportOfV1Document ==
    [][\A p \in Procs : \A d \in DocIds :
         ( /\ Ends(p, "exportFor1C") /\ tx'[p].code = "OK"
           /\ resolveDocumentId(Db, tx[p].key) = Some(d)
           /\ \A k \in 1..Len(changes) : changes[k].deviceId = "unknown" )
         => \A i \in DOMAIN tx'[p].out.items :
               LET e    == tx'[p].out.items[i]
                   item == items[d][e.sku]
               IN  /\ e.correctedQty = Qty(Coalesce(item.correctedQty, item.countedQty))
                   /\ item.deltaQty # NULL => e.deltaQty = Val(item.deltaQty)]_vars

\* C27: an exportFor1C call, whether it answers with the export payload or
\* fails, changes nothing in the store: no document status or version, no
\* item, no barcode, no warehouse, no change row.
C27_ExportReadOnly ==
    [][\A p \in Procs : Ends(p, "exportFor1C") => StoreUnchanged]_vars

\* One export has failed with NOT_FOUND and another has answered with the
\* items of a document that has change rows and is still IMPORTED.
C27_Witness ==
    \E p \in Procs : \E q \in Procs \ {p} :
        /\ Answered(p, "exportFor1C") /\ tx[p].code = "OK"
        /\ tx[p].out.items # <<>>
        /\ changes # <<>>
        /\ docs["d1"].status = "IMPORTED"
        /\ Answered(q, "exportFor1C") /\ tx[q].code = "NOT_FOUND"

\* C28: an exportFor1C call for a document whose status is IMPORTED (it has
\* not been revised) answers UNPROCESSABLE_ENTITY and returns no items.
C28_ExportNeedsRevise ==
    [][\A p \in Procs : \A d \in DocIds :
         ( /\ Ends(p, "exportFor1C")
           /\ resolveDocumentId(Db, tx[p].key) = Some(d)
           /\ docs[d].status = "IMPORTED" )
         => /\ tx'[p].code = "UNPROCESSABLE_ENTITY"
            /\ tx'[p].out.items = <<>>]_vars

\* C29: resolveDocumentId(key), seen through getDocument, gives the
\* document whose id is key when there is one; else the document whose
\* externalId is key when there is one; else, of the documents whose
\* onecNumber is key, the one created last; else NOT_FOUND.  An earlier
\* rule wins even when another document matches a later rule.
C29_ResolveOrder ==
    [][\A p \in Procs :
         Ends(p, "getDocument")
         => LET key   == tx[p].key
                ids   == {d \in DOMAIN docs : docs[d].exists}
                byId  == {d \in ids : d = key}
                byExt == {d \in ids : docs[d].externalId = key}
                byNum == {d \in ids : docs[d].onecNumber = key}
                hit   == IF byId # {} THEN byId
                         ELSE IF byExt # {} THEN byExt
                         ELSE {d \in byNum :
                                 \A e \in byNum : docs[e].createdAt <= docs[d].createdAt}
            IN  IF hit = {}
                THEN tx'[p].code = "NOT_FOUND"
                ELSE /\ tx'[p].code = "OK"
                     /\ hit = {Val(tx'[p].out.id)}]_vars

\* Two documents share the onecNumber that was asked for, the one with the
\* smaller id was created last, and the lookup gave that one.
C29_Witness ==
    \E p \in Procs :
        /\ Answered(p, "getDocument") /\ tx[p].code = "OK"
        /\ tx[p].key = "n1"
        /\ docs["d1"].exists /\ docs["d2"].exists
        /\ docs["d1"].onecNumber = "n1" /\ docs["d2"].onecNumber = "n1"
        /\ docs["d1"].createdAt > docs["d2"].createdAt
        /\ tx[p].out.id = Some("d1")

\* The key is the id of one document and the externalId of another, and
\* the lookup gave the document with that id.
C29_IdFirstWitness ==
    \E p \in Procs :
        /\ Answered(p, "getDocument") /\ tx[p].code = "OK"
        /\ tx[p].key = "d2"
        /\ docs["d2"].exists /\ docs["d1"].exists
        /\ docs["d1"].externalId = "d2"
        /\ tx[p].out.id = Some("d2")

\* What the handler of operation op gives on the store as it is, asked for
\* the document under `key`.
Handled(op, key, payload, found) ==
    CASE op = "getDocument"          -> getDocument(Db, key)
      [] op = "updateItems"          -> updateItems(Db, key, payload)
      [] op = "updateItemsWithMerge" -> updateItemsWithMerge(Db, key, payload)
      [] op = "revise"               -> revise(Db, key)
      [] op = "exportFor1C"          -> exportFor1C(Db, key, found)
      [] op = "ack"                  -> ack(Db, key)

\* The operations of KeyedEnds whose response is not built from the row
\* read back after the commit.
PlainOut == {"getDocument", "updateItemsWithMerge", "exportFor1C", "ack"}

\* The call of p, an operation of ops given one of the three keys of the
\* existing document d, ends with the answer and the effect that the same
\* operation has when given the id d.
KeyedEnds(ops, p, d) ==
    ( /\ tx[p].pc = "running" /\ tx'[p].pc = "done"
      /\ tx[p].op \in ops
      /\ docs[d].exists
      /\ tx[p].key \in {d, docs[d].externalId, docs[d].onecNumber} )
    => \E found \in ByCreatedAt(changes) :
          LET byId == Handled(tx[p].op, d, tx[p].payload, found) IN
          /\ tx'[p].code = byId.code
          /\ Db' = Local(Db, Clocked(Transaction(byId)))
          /\ tx[p].op \in PlainOut => tx'[p].out = byId.out

\* C30: every document operation (get, v1 update, v2 merge, revise, export,
\* ack) given the externalId or the onecNumber of a document answers and
\* acts on the document as it does when given the document's id.
C30_KeysInterchangeable ==
    [][\A p \in Procs : \A d \in DocIds :
         KeyedEnds({"getDocument", "updateItems", "updateItemsWithMerge",
                    "revise", "exportFor1C", "ack"}, p, d)]_vars

\* C31: whatever updateItems calls overlap a revise, at the step at which
\* the revise commits every item of the document has, in the committed
\* store, deltaQty = (correctedQty, else countedQty, else 0) - qtyFrom1C
\* for the countedQty, correctedQty and qtyFrom1C committed at that moment.
C31_ReviseConsistentSnapshot ==
    [][\A p \in Procs : \A d \in DocIds :
         ( /\ Ends(p, "revise") /\ tx'[p].code = "OK"
           /\ tx[p].key = d )
         => \A k \in Skus :
               LET item == items'[d][k] IN
               item.exists =>
                  /\ item.deltaQty # NULL
                  /\ Val(item.deltaQty) + item.qtyFrom1C = Entered(item)]_vars

\* What a read of operation op, asked for key, returns on the single
\* committed state db of the store: every response it can give there.
ReadsOn(op, key, db) ==
    IF op = "getDocument"
    THEN { [code |-> getDocument(db, key).code, out |-> getDocument(db, key).out] }
    ELSE { [code |-> exportFor1C(db, key, found).code,
            out  |-> IF exportFor1C(db, key, found).code = "OK"
                     THEN exportFor1C(db, key, found).out ELSE NoOut] :
              found \in ByCreatedAt(db.changes) }

\* C32: an exportFor1C or getDocument call, whatever import, updateItems,
\* updateItemsWithMerge and revise transactions commit while it runs,
\* returns what it would return on one of the committed states the store
\* went through from its first statement to its last: never item values of
\* one committed state with change rows of another.
C32_ReadsOneCommittedState ==
    [][\A p \in Procs :
         ( /\ tx[p].pc = "running" /\ tx'[p].pc = "done"
           /\ tx[p].op \in {"exportFor1C", "getDocument"}
           /\ tx[p].hist # NULL )
         => \E db \in Val(tx[p].hist) :
               [code |-> tx'[p].code, out |-> tx'[p].out]
                  \in ReadsOn(tx[p].op, tx[p].key, db)]_vars

\* The number of item references (sku, barcode) an update carries.
References(u) == (IF u.sku # NULL THEN 1 ELSE 0) + (IF u.barcode # NULL THEN 1 ELSE 0)

\* C33: an updateItems call with the right version, in which every update
\* that carries one reference resolves, is rejected when some update of its
\* batch carries neither sku nor barcode (with BAD_REQUEST) or carries both,
\* and then commits nothing of the batch.
C33_ExactlyOneReference ==
    [][\A p \in Procs :
         ( /\ Ends(p, "updateItems")
           /\ Addressed(p)
           /\ docs[tx[p].key].version = tx[p].payload.version
           /\ \A i \in DOMAIN tx[p].payload.items :
                 References(tx[p].payload.items[i]) = 1
                 => Resolves(tx[p].key, tx[p].payload.items[i])
           /\ \E i \in DOMAIN tx[p].payload.items :
                 References(tx[p].payload.items[i]) # 1 )
         => /\ tx'[p].code # "OK"
            /\ (\E i \in DOMAIN tx[p].payload.items :
                   References(tx[p].payload.items[i]) = 0)
               => tx'[p].code = "BAD_REQUEST"
            /\ StoreUnchanged]_vars

\* The status the spec gives each outcome.
StatusTable(code) ==
    CASE code = "OK"                   -> 200
      [] code = "NOT_FOUND"            -> 404
      [] code = "CONFLICT"             -> 409
      [] code = "BAD_REQUEST"          -> 400
      [] code = "UNPROCESSABLE_ENTITY" -> 422
      [] OTHER                         -> 500

C36_RevisedIsFrozen ==
    \A d \in DocIds :
        (docs[d].exists /\ docs[d].status \in {"REVISED", "EXPORTED"})
        => \A k \in Skus : items[d][k].exists =>
               items[d][k].deltaQty = Some(Entered(items[d][k]) - items[d][k].qtyFrom1C)

\* The quantities exportFor1C can report for item sku of document d from
\* the item row and the change log given.
Reports(d, sku, item, bcs, log) ==
    { LET e == exportItem(d, sku, item, bcs, found)
      IN  <<e.countedQty, e.correctedQty, e.deltaQty>> : found \in ByCreatedAt(log) }

\* C37: an updateItems or updateItemsWithMerge call that answers OK and
\* whose updates carry a note and no quantity leaves what exportFor1C
\* reports for every item of the document (countedQty, correctedQty,
\* deltaQty) as it was before the call.
C37_NoteKeepsExport ==
    [][\A p \in Procs : \A d \in DocIds :
         ( /\ Ends(p, "updateItems") \/ Ends(p, "updateItemsWithMerge")
           /\ tx'[p].code = "OK"
           /\ resolveDocumentId(Db, tx[p].key) = Some(d)
           /\ tx[p].payload.items # <<>>
           /\ \A i \in DOMAIN tx[p].payload.items :
                 Present(tx[p].payload.items[i]) = {"note"} )
         => \A sku \in Skus : items[d][sku].exists =>
               Reports(d, sku, items'[d][sku], barcodes'[d], changes')
                 = Reports(d, sku, items[d][sku], barcodes[d], changes)]_vars

\* C38: for an item that has no correctedQty, neither in its own row nor in
\* a latest row of any device in the change log, exportFor1C reports as
\* correctedQty the countedQty it reports and as deltaQty that countedQty
\* minus the item's qtyFrom1C, whether the item has rows in the change log
\* or not.
C38_MissingCorrectedIsCounted ==
    [][\A p \in Procs : \A d \in DocIds :
         ( /\ Ends(p, "exportFor1C") /\ tx'[p].code = "OK"
           /\ resolveDocumentId(Db, tx[p].key) = Some(d) )
         => \A i \in DOMAIN tx'[p].out.items :
               LET e == tx'[p].out.items[i] IN
               ( /\ items[d][e.sku].correctedQty = NULL
                 /\ \A dev \in DevicesOf(d, e.sku) : \A k \in LatestOf(d, e.sku, dev) :
                       changes[k].correctedQty = NULL )
               => /\ e.correctedQty = e.countedQty
                  /\ e.deltaQty = e.countedQty - items[d][e.sku].qtyFrom1C]_vars

\* C39: two revise calls on the same document that overlap, both started
\* while the document was IMPORTED: exactly one answers OK, the other
\* UNPROCESSABLE_ENTITY, and the version ends one above the version both
\* started from.
C39_OneReviseWins ==
    \A p \in Procs : \A q \in Procs \ {p} :
        ( /\ Answered(p, "revise") /\ Answered(q, "revise")
          /\ tx[p].key = tx[q].key
          /\ tx[p].was = Some("IMPORTED") /\ tx[q].was = Some("IMPORTED")
          /\ tx[p].seen = tx[q].seen
          /\ tx[p].code # "INTERNAL" /\ tx[q].code # "INTERNAL" )
        => /\ {tx[p].code, tx[q].code} = {"OK", "UNPROCESSABLE_ENTITY"}
           /\ docs[tx[p].key].version = Val(tx[p].seen) + 1

\* C40: once the document is imported and a caller asks for its revision
\* and then its acknowledgement, repeating each call until it succeeds, the
\* document eventually has status EXPORTED, whatever imports, v1 updates
\* and v2 updates of the document another caller interleaves.
C40_WorkflowCompletes ==
    docs["d1"].exists ~> (docs["d1"].exists /\ docs["d1"].status = "EXPORTED")

\* The acknowledgement has been accepted on a document that was updated by
\* v1 and by v2 and revised.
C40_Witness ==
    /\ Answered("p1", "ack") /\ tx["p1"].code = "OK"
    /\ docs["d1"].exists /\ docs["d1"].status = "EXPORTED"
    /\ docs["d1"].version = 3
    /\ Len(changes) = 2
    /\ \E k \in 1..Len(changes) : changes[k].deviceId = "t1"
    /\ \E k \in 1..Len(changes) : changes[k].deviceId = "unknown"

====
